---- MODULE Spec2Model ----
(***************************************************************************)
(* Range-proof circuit (circuits/range_proof.circom) and the circuit       *)
(* compilation script (scripts/compile_circuits.js).                       *)
(*                                                                         *)
(* The circuit part follows one component tree from construction (the      *)
(* template parameter is known, asserts are evaluated) through the         *)
(* assignment of every signal in program order.  Signals written with <==  *)
(* are fixed by their constraint; the hinted signals out[i] of Num2Bits    *)
(* (written with <--) are chosen by the prover, either as the hint says or *)
(* as any other field element.  A violated constraint ends the run: the    *)
(* witness generator aborts there, and no extension of the assignment is a *)
(* witness.                                                                *)
(*                                                                         *)
(* Arithmetic is that of a prime field.  The bn128 scalar field has        *)
(* 2^253 < p < 2^254, and assert(n <= 252) keeps 2^(n+1) below p.  The     *)
(* runs explored here use widths n <= MaxN over the field of the smallest  *)
(* prime P above 2^(MaxN+1), which stands to MaxN as p stands to 252.      *)
(***************************************************************************)
EXTENDS Integers, Sequences, FiniteSets, TLC

VARIABLES main, n, r1cs, inp, pc, n2bIn, out, lc, ltOut, cmpOut, valid, honest,
          cpc, circuit, present, ptau, tmp, ran, ret, successCount

cvars == <<main, n, r1cs, inp, pc, n2bIn, out, lc, ltOut, cmpOut, valid, honest>>
svars == <<cpc, circuit, present, ptau, tmp, ran, ret, successCount>>
vars == <<main, n, r1cs, inp, pc, n2bIn, out, lc, ltOut, cmpOut, valid, honest,
          cpc, circuit, present, ptau, tmp, ran, ret, successCount>>

----------------------------------------------------------------------------
(* Bounds and the field *)

MaxN == 2

AssertBound == 252

IsPrime(k) == k > 1 /\ \A d \in 2..(k - 1) : k % d # 0

P == CHOOSE p \in (2^(MaxN + 1) + 1)..(2^(MaxN + 2)) :
        IsPrime(p) /\ \A q \in (2^(MaxN + 1) + 1)..(p - 1) : ~IsPrime(q)

Field == 0..(P - 1)

FAdd(x, y) == (x + y) % P
FSub(x, y) == (x - y + P) % P
FMul(x, y) == (x * y) % P

\* 1 << k on field values
Shl1(k) == (2^k) % P

\* Mutation: the hint reads the bit above the one asked for.
Hint_OffByOne(x, i) == (x \div (2^(i + 1))) % 2

\* (x >> i) & 1 on the integer representative of a field value
Hint(x, i) == (x \div (2^i)) % 2

----------------------------------------------------------------------------
(* Templates *)

Templates == {"Num2Bits", "LessThan", "GreaterThan", "GreaterEqThan",
              "LessEqThan", "RangeProof"}

Comparators == {"LessThan", "GreaterThan", "GreaterEqThan", "LessEqThan"}

Arity(t) == CASE t = "Num2Bits" -> 1
              [] t \in Comparators -> 2
              [] t = "RangeProof" -> 3

\* Mutation: the assert admits one width more.
LessThanAssert_OffByOne(k) == k <= AssertBound + 1

\* assert(n <= 252) of LessThan
LessThanAssert(k) == k <= AssertBound

\* Whether every assert met while instantiating t(k) and its components holds.
RECURSIVE Constructs(_, _)
Constructs(t, k) ==
    CASE t = "Num2Bits" -> TRUE
      [] t = "LessThan" -> LessThanAssert(k) /\ Constructs("Num2Bits", k + 1)
      [] t = "GreaterThan" -> Constructs("LessThan", k)
      [] t = "GreaterEqThan" -> Constructs("LessThan", k)
      [] t = "LessEqThan" -> Constructs("GreaterThan", k)
      [] t = "RangeProof" -> Constructs("GreaterEqThan", k) /\ Constructs("LessEqThan", k)

\* Number of constraints t(k) emits: one for every <== and every ===.
RECURSIVE NumConstraints(_, _)
NumConstraints(t, k) ==
    CASE t = "Num2Bits" -> k + 1
      [] t = "LessThan" -> 1 + NumConstraints("Num2Bits", k + 1) + 1
      [] t = "GreaterThan" -> 2 + NumConstraints("LessThan", k) + 1
      [] t = "GreaterEqThan" -> 2 + NumConstraints("LessThan", k) + 1
      [] t = "LessEqThan" -> 2 + NumConstraints("GreaterThan", k) + 1
      [] t = "RangeProof" -> 2 + NumConstraints("GreaterEqThan", k) + 1
                             + 2 + NumConstraints("LessEqThan", k) + 1 + 2

\* Template parameters tried at construction: the small widths that are then
\* run, and the values around the assert's bound.
Params == (0..(MaxN + 1)) \cup ((AssertBound - 1)..(AssertBound + 2))

\* Width of the Num2Bits instance of the component tree.
Width == IF main = "Num2Bits" THEN n ELSE n + 1

\* The operands (in[0], in[1]) of the LessThan instances of t, in program order.
LessThanCall(in) == <<in[1], in[2]>>
\* Mutation: GreaterThan passes its operands on unswapped.
GreaterThanCall_NoSwap(in) == LessThanCall(in)
GreaterThanCall(in) == LessThanCall(<<in[2], in[1]>>)
GreaterEqThanCall(in) == LessThanCall(<<in[1], in[2]>>)
LessEqThanCall(in) == GreaterThanCall(<<in[1], in[2]>>)
LtCalls(t, in) ==
    CASE t = "LessThan" -> <<LessThanCall(in)>>
      [] t = "GreaterThan" -> <<GreaterThanCall(in)>>
      [] t = "GreaterEqThan" -> <<GreaterEqThanCall(in)>>
      [] t = "LessEqThan" -> <<LessEqThanCall(in)>>
      [] t = "RangeProof" -> <<GreaterEqThanCall(<<in[1], in[2]>>),
                               LessEqThanCall(<<in[1], in[3]>>)>>
      [] OTHER -> <<>>

\* n2b.in <== in[0] + (1<<n) - in[1]
LessThanShift(k, a, b) == FSub(FAdd(a, Shl1(k)), b)

\* Mutation: LessThan returns the top bit itself.
LessThanOut_Raw(bits) == bits[Len(bits)]

\* out <== 1 - n2b.out[n]   (out[n] is the last of the n+1 bits)
LessThanOut(bits) == FSub(1, bits[Len(bits)])

\* GreaterThan: out <== lt.out
GreaterThanOut(lt) == lt
\* GreaterEqThan: out <== 1 - lt.out
GreaterEqThanOut(lt) == FSub(1, lt)
\* Mutation: LessEqThan returns gt.out without negating it.
LessEqThanOut_NoNegation(gt) == gt
\* LessEqThan: out <== 1 - gt.out
LessEqThanOut(gt) == FSub(1, gt)

\* Output of the comparator wrapped around the k-th LessThan instance of t.
CmpOut(t, k, lt) ==
    CASE t = "LessThan" -> lt
      [] t = "GreaterThan" -> GreaterThanOut(lt)
      [] t = "GreaterEqThan" -> GreaterEqThanOut(lt)
      [] t = "LessEqThan" -> LessEqThanOut(GreaterThanOut(lt))
      [] t = "RangeProof" -> IF k = 1 THEN GreaterEqThanOut(lt)
                                      ELSE LessEqThanOut(GreaterThanOut(lt))

\* out[i] * (out[i] - 1) === 0
BoolConstraint(b) == FMul(b, FSub(b, 1)) = 0

\* Mutation: the bits are summed without their weights.
LcStep_NoWeight(acc, b, i) == FAdd(acc, b)

\* lc = lc + out[i] * (1 << i)
LcStep(acc, b, i) == FAdd(acc, FMul(b, Shl1(i)))

\* Mutation: the reconstruction constraint is left out.
Reconstructs_None(acc, in) == TRUE

\* lc === in
Reconstructs(acc, in) == acc = in

\* valid <== aboveMin * belowMax
ValidOut(aboveMin, belowMax) == FMul(aboveMin, belowMax)

\* Mutation: valid is computed but not constrained.
ValidConstraint_None(v) == TRUE

\* valid === 1
ValidConstraint(v) == v = 1

----------------------------------------------------------------------------
(* Circuit: construction and signal assignment *)

NoScript ==
    /\ cpc = "off" /\ circuit = 0 /\ present = <<>> /\ ptau = "absent"
    /\ tmp = "absent" /\ ran = <<>> /\ ret = "none" /\ successCount = 0

Init ==
    /\ main \in Templates
    /\ n \in Params
    /\ r1cs = -1
    /\ inp = <<>>
    /\ pc = "construct"
    /\ n2bIn = 0 /\ out = <<>> /\ lc = 0
    /\ ltOut = <<>> /\ cmpOut = <<>> /\ valid = -1
    /\ honest = TRUE
    /\ NoScript

\* Instantiating main(n): a failing assert stops the compiler, and no
\* constraint system is written.
Construct ==
    /\ pc = "construct"
    /\ IF Constructs(main, n)
         THEN pc' = "inputs" /\ r1cs' = NumConstraints(main, n)
         ELSE pc' = "assert_failed" /\ r1cs' = r1cs
    /\ UNCHANGED <<main, n, inp, n2bIn, out, lc, ltOut, cmpOut, valid, honest>>
    /\ UNCHANGED svars

\* The input signals of the main component, any field elements.
SetInputs ==
    /\ pc = "inputs"
    /\ n >= 1
    /\ n <= IF main = "Num2Bits" THEN MaxN + 1 ELSE MaxN
    /\ \E in \in [1..Arity(main) -> Field] :
         /\ inp' = in
         /\ IF main = "Num2Bits"
              THEN pc' = "n2b" /\ n2bIn' = in[1]
              ELSE pc' = "wire" /\ n2bIn' = n2bIn
    /\ UNCHANGED <<main, n, r1cs, out, lc, ltOut, cmpOut, valid, honest>>
    /\ UNCHANGED svars

\* The next LessThan instance receives its operands and feeds its Num2Bits.
Wire ==
    /\ pc = "wire"
    /\ LET ops == LtCalls(main, inp)[Len(ltOut) + 1]
       IN n2bIn' = LessThanShift(n, ops[1], ops[2])
    /\ out' = <<>>
    /\ lc' = 0
    /\ pc' = "n2b"
    /\ UNCHANGED <<main, n, r1cs, inp, ltOut, cmpOut, valid, honest>>
    /\ UNCHANGED svars

\* One iteration of the loop of Num2Bits with out[i] set to b.
BitStep(b) ==
    /\ out' = Append(out, b)
    /\ IF BoolConstraint(b)
         THEN pc' = pc /\ lc' = LcStep(lc, b, Len(out))
         ELSE pc' = "abort" /\ lc' = lc
    /\ UNCHANGED <<main, n, r1cs, inp, n2bIn, ltOut, cmpOut, valid>>
    /\ UNCHANGED svars

\* out[i] <-- (in >> i) & 1
HintBit ==
    /\ pc = "n2b"
    /\ Len(out) < Width
    /\ BitStep(Hint(n2bIn, Len(out)))
    /\ honest' = honest

\* out[i] is not forced by any constraint to be the hint: any other value.
ForgeBit ==
    /\ pc = "n2b"
    /\ Len(out) < Width
    /\ \E b \in Field \ {Hint(n2bIn, Len(out))} : BitStep(b)
    /\ honest' = FALSE

\* lc === in, after the loop
Num2BitsCheck ==
    /\ pc = "n2b"
    /\ Len(out) = Width
    /\ pc' = IF ~Reconstructs(lc, n2bIn) THEN "abort"
             ELSE IF main = "Num2Bits" THEN "done" ELSE "ret"
    /\ UNCHANGED <<main, n, r1cs, inp, n2bIn, out, lc, ltOut, cmpOut, valid, honest>>
    /\ UNCHANGED svars

\* LessThan's out, and the out of the comparator around it.
Return ==
    /\ pc = "ret"
    /\ ltOut' = Append(ltOut, LessThanOut(out))
    /\ cmpOut' = Append(cmpOut, CmpOut(main, Len(ltOut) + 1, LessThanOut(out)))
    /\ pc' = IF main # "RangeProof" THEN "done"
             ELSE IF Len(ltOut) = 0 THEN "wire" ELSE "valid"
    /\ UNCHANGED <<main, n, r1cs, inp, n2bIn, out, lc, valid, honest>>
    /\ UNCHANGED svars

\* RangeProof: valid <== aboveMin * belowMax; valid === 1
Valid ==
    /\ pc = "valid"
    /\ valid' = ValidOut(cmpOut[1], cmpOut[2])
    /\ pc' = IF ValidConstraint(ValidOut(cmpOut[1], cmpOut[2])) THEN "done" ELSE "abort"
    /\ UNCHANGED <<main, n, r1cs, inp, n2bIn, out, lc, ltOut, cmpOut, honest>>
    /\ UNCHANGED svars

Next ==
    \/ Construct
    \/ SetInputs
    \/ Wire
    \/ HintBit
    \/ ForgeBit
    \/ Num2BitsCheck
    \/ Return
    \/ Valid

Spec == Init /\ [][Next]_vars

----------------------------------------------------------------------------
(* Properties of the circuit *)

\* x is representable in n bits
NBit(x) == x < 2^n

\* The component tree has received its inputs.
Running == pc \notin {"construct", "assert_failed", "inputs"}

\* A witness generator that has not aborted and has not finished can go on.
Progress == pc = "done" \/ ENABLED (Wire \/ HintBit \/ Num2BitsCheck \/ Return \/ Valid)

Bit(c) == IF c THEN 1 ELSE 0

\* Integer value of a bit vector, least significant bit first.
RECURSIVE BitsValue(_)
BitsValue(bits) ==
    IF bits = <<>> THEN 0 ELSE bits[1] + 2 * BitsValue(Tail(bits))

\* C1: RangeProof(n) is complete: for n-bit value, minValue, maxValue with
\* minValue <= value <= maxValue (bounds included) the witness computed by the
\* hints violates no constraint, runs to the end, and ends with valid = 1.
C1_Completeness ==
    (/\ main = "RangeProof" /\ Running /\ honest
     /\ NBit(inp[1]) /\ NBit(inp[2]) /\ NBit(inp[3])
     /\ inp[2] <= inp[1] /\ inp[1] <= inp[3])
    => /\ pc # "abort"
       /\ Progress
       /\ pc = "done" => valid = 1 /\ cmpOut = <<1, 1>>

C1_Witness ==
    /\ main = "RangeProof" /\ pc = "done" /\ honest /\ n = MaxN
    /\ inp[1] = inp[2] /\ inp[1] < inp[3] /\ inp[1] > 0 /\ valid = 1

\* C2: RangeProof(n) is sound on the n-bit domain: with n-bit value, minValue,
\* maxValue and value < minValue or value > maxValue, no choice of the hinted
\* bits, honest or forged, reaches the end with every constraint satisfied.
C2_Soundness ==
    (/\ main = "RangeProof" /\ Running
     /\ NBit(inp[1]) /\ NBit(inp[2]) /\ NBit(inp[3])
     /\ (inp[1] < inp[2] \/ inp[1] > inp[3]))
    => pc # "done"

C2_Witness ==
    /\ main = "RangeProof" /\ pc = "abort" /\ ~honest
    /\ NBit(inp[1]) /\ NBit(inp[2]) /\ NBit(inp[3])
    /\ inp[1] < inp[2]
    /\ Len(out) = Width /\ \A i \in 1..Len(out) : out[i] \in {0, 1}
    /\ out[Len(out)] = 1

\* C3: RangeProof(n) rejects inputs outside the n-bit domain: a run that
\* satisfies every constraint has all three inputs below 2^n and
\* minValue <= value <= maxValue as integers.
C3_RejectsOutOfDomain ==
    (main = "RangeProof" /\ pc = "done")
    => /\ NBit(inp[1]) /\ NBit(inp[2]) /\ NBit(inp[3])
       /\ inp[2] <= inp[1] /\ inp[1] <= inp[3]

\* C4: constructing a comparator or RangeProof with n >= 253 fails on the
\* assert of LessThan and produces no constraint system; with n <= 252
\* construction succeeds and produces one.
C4_ConstructionCheck ==
    (main # "Num2Bits" /\ pc # "construct")
    => /\ n >= 253 => pc = "assert_failed" /\ r1cs = -1
       /\ n <= 252 => pc # "assert_failed" /\ r1cs > 0

C4_Witness == main = "LessEqThan" /\ n = 253 /\ pc = "assert_failed"

\* C5: in every satisfying assignment of RangeProof(n), valid = 1 and
\* aboveMin = belowMax = 1, so the public signals (minValue, maxValue, valid)
\* are the same for every value the public inputs admit.
C5_PublicSignalsFixed ==
    (main = "RangeProof" /\ pc = "done")
    => valid = 1 /\ cmpOut[1] = 1 /\ cmpOut[2] = 1

C5_Witness ==
    /\ main = "RangeProof" /\ pc = "done"
    /\ inp[2] < inp[1] /\ inp[1] < inp[3] /\ NBit(inp[3])

\* C6: LessThan(n) on n-bit inputs a, b: the hinted witness satisfies the
\* constraints, and every satisfying assignment has out = 1 if a < b and
\* out = 0 if a >= b, out being 1 minus bit n of the decomposition of
\* a + 2^n - b.
C6_LessThanCorrect ==
    (main = "LessThan" /\ Running /\ NBit(inp[1]) /\ NBit(inp[2]))
    => /\ honest => pc # "abort" /\ Progress
       /\ pc = "done" =>
            /\ ltOut[1] = Bit(inp[1] < inp[2])
            /\ BitsValue(out) = inp[1] + 2^n - inp[2]
            /\ ltOut[1] = 1 - out[n + 1]

C6_Witness ==
    /\ main = "LessThan" /\ pc = "done" /\ n = MaxN
    /\ inp[1] < inp[2] /\ NBit(inp[2]) /\ ltOut = <<1>>

\* C7: on n-bit inputs a, b every comparator output is 0 or 1, with
\* GreaterThan(a,b) = LessThan(b,a) = 1 iff a > b, GreaterEqThan(a,b) =
\* 1 - LessThan(a,b) = 1 iff a >= b, LessEqThan(a,b) = 1 - GreaterThan(a,b)
\* = 1 iff a <= b.
C7_ComparatorFamily ==
    (main \in Comparators /\ pc = "done" /\ NBit(inp[1]) /\ NBit(inp[2]))
    => LET a == inp[1]
           b == inp[2]
           lt == ltOut[1]
       IN /\ cmpOut[1] \in {0, 1}
          /\ main = "LessThan" => cmpOut[1] = Bit(a < b)
          /\ main = "GreaterThan" =>
               /\ cmpOut[1] = lt /\ lt = Bit(b < a)
               /\ cmpOut[1] = Bit(a > b)
          /\ main = "GreaterEqThan" =>
               /\ cmpOut[1] = 1 - lt /\ lt = Bit(a < b)
               /\ cmpOut[1] = Bit(a >= b)
          /\ main = "LessEqThan" =>
               /\ cmpOut[1] = 1 - lt /\ lt = Bit(a > b)
               /\ cmpOut[1] = Bit(a <= b)

C7_Witness ==
    /\ main = "LessEqThan" /\ pc = "done" /\ n = MaxN
    /\ inp[1] = inp[2] /\ inp[1] > 0 /\ NBit(inp[1]) /\ cmpOut = <<1>>

\* C8: Num2Bits(n), for widths with 2^n below the modulus: a satisfying out
\* exists iff in < 2^n; it is then the little-endian binary representation
\* of in, equal to the hints, and sums back to in; an out holding a value
\* other than 0 or 1 violates a boolean constraint; for in >= 2^n every out
\* violates a constraint.
C8_Num2BitsExact ==
    (main = "Num2Bits" /\ Running)
    => /\ (NBit(n2bIn) /\ honest) => pc # "abort" /\ Progress
       /\ pc = "done" =>
            /\ NBit(n2bIn)
            /\ Len(out) = n
            /\ \A i \in 1..n : out[i] = Hint(n2bIn, i - 1)
            /\ BitsValue(out) = n2bIn
       /\ (\E i \in 1..Len(out) : out[i] \notin {0, 1}) => pc = "abort"
       /\ ~NBit(n2bIn) => pc # "done"

C8_Witness ==
    /\ main = "Num2Bits" /\ pc = "done" /\ n = MaxN + 1
    /\ out[1] = 0 /\ out[n] = 1 /\ n2bIn > 2^(n - 1)

\* C9 as stated: LessThan(n) never fails on an input >= 2^n: the witness
\* computed by the hints satisfies the constraints, with a boolean out.
C9_NeverFails ==
    (main = "LessThan" /\ Running /\ honest /\ (~NBit(inp[1]) \/ ~NBit(inp[2])))
    => pc # "abort" /\ (pc = "done" => ltOut[1] \in {0, 1})

\* C9 amended: LessThan(n) checks no input's range, but the decomposition of
\* s = (in[0] + 2^n - in[1]) mod p bounds the difference: with an input
\* >= 2^n the constraints are satisfiable iff s < 2^(n+1); then out is
\* boolean and is 1 iff s < 2^n, whatever the integer order of the inputs;
\* otherwise every assignment violates a constraint.
C9_DifferenceChecked ==
    (main = "LessThan" /\ Running /\ pc # "wire" /\ (~NBit(inp[1]) \/ ~NBit(inp[2])))
    => /\ n2bIn = (inp[1] + 2^n - inp[2]) % P
       /\ (honest /\ n2bIn < 2^(n + 1)) => pc # "abort" /\ Progress
       /\ pc = "done" =>
            /\ n2bIn < 2^(n + 1)
            /\ ltOut[1] \in {0, 1}
            /\ ltOut[1] = Bit(n2bIn < 2^n)
       /\ (n2bIn >= 2^(n + 1) /\ Len(out) = Width) => pc \in {"n2b", "abort"}

\* An input >= 2^n accepted with an out that is not the integer comparison.
C9_Witness ==
    /\ main = "LessThan" /\ pc = "done" /\ ~NBit(inp[2])
    /\ inp[1] < inp[2] /\ ltOut = <<0>>

----------------------------------------------------------------------------
(* scripts/compile_circuits.js: main() and compileCircuit *)

MaxCircuits == 2

\* Contents a Powers of Tau file can have: none, what `powersoftau new`
\* writes, what `contribute` writes, what `prepare phase2` writes, or the
\* leftover of a command that failed while writing.
PtauStates == {"absent", "new", "contributed", "prepared", "partial"}

\* What a failed command leaves at its output path holding f: f untouched,
\* or a partly written file.
FailedWrite(f) == {f, "partial"}

\* Mutation: a failed R1CS info stops the run like any other step.
Mandatory_All(step) == TRUE

\* A step other than R1CS info returns false from compileCircuit when it fails.
Mandatory(step) == step # "info"

\* The steps in the order of the code, with the file at ptauPath missing / found.
StepsNew == <<"exists", "compile", "info", "ptauMissing", "new", "contribute",
              "prepare", "setup", "export">>
StepsReuse == <<"exists", "compile", "info", "ptauFound", "setup", "export">>

NoCircuit ==
    /\ main = "none" /\ n = 0 /\ r1cs = -1 /\ inp = <<>> /\ pc = "off"
    /\ n2bIn = 0 /\ out = <<>> /\ lc = 0 /\ ltOut = <<>> /\ cmpOut = <<>>
    /\ valid = -1 /\ honest = TRUE

\* main() has listed the circuits; present[i] tells whether circuit i's file
\* is (still) there when compileCircuit looks.  The build directory may hold
\* the Powers of Tau file of an earlier, successful invocation.
InitCompile ==
    /\ NoCircuit
    /\ cpc = "call"
    /\ circuit = 1
    /\ present \in UNION {[1..k -> BOOLEAN] : k \in 1..MaxCircuits}
    /\ ptau \in {"absent", "prepared"}
    /\ tmp = "absent"
    /\ ran = <<>>
    /\ ret = "none"
    /\ successCount = 0

\* The outcome of one step: logged; a failed mandatory step returns false,
\* anything else goes on to `next`.
Step(step, ok, next) ==
    /\ ran' = Append(ran, [step |-> step, ok |-> ok])
    /\ IF ~ok /\ Mandatory(step)
         THEN cpc' = "returned" /\ ret' = "false"
         ELSE cpc' = next /\ ret' = ret

\* compileCircuit entry: ensureDir, then the circuit file's existence check.
CheckCircuitFile ==
    /\ cpc = "call"
    /\ ran' = <<[step |-> "exists", ok |-> present[circuit]]>>
    /\ IF present[circuit]
         THEN cpc' = "compile" /\ ret' = "none"
         ELSE cpc' = "returned" /\ ret' = "false"
    /\ UNCHANGED <<circuit, present, ptau, tmp, successCount>>
    /\ UNCHANGED cvars

\* [1/5] exec(circom ...)
CompileStep ==
    /\ cpc = "compile"
    /\ \E ok \in BOOLEAN : Step("compile", ok, "info")
    /\ UNCHANGED <<circuit, present, ptau, tmp, successCount>>
    /\ UNCHANGED cvars

\* [2/5] exec(snarkjs r1cs info ...): a failure is only logged
InfoStep ==
    /\ cpc = "info"
    /\ \E ok \in BOOLEAN : Step("info", ok, "ptau")
    /\ UNCHANGED <<circuit, present, ptau, tmp, successCount>>
    /\ UNCHANGED cvars

\* [3/5] fs.existsSync(ptauPath)
PtauCheck ==
    /\ cpc = "ptau"
    /\ IF ptau = "absent"
         THEN Step("ptauMissing", TRUE, "new")
         ELSE Step("ptauFound", TRUE, "setup")
    /\ UNCHANGED <<circuit, present, ptau, tmp, successCount>>
    /\ UNCHANGED cvars

\* exec(snarkjs powersoftau new bn128 10 ptauPath)
PtauNew ==
    /\ cpc = "new"
    /\ \E ok \in BOOLEAN :
         /\ Step("new", ok, "contribute")
         /\ IF ok THEN ptau' = "new" ELSE ptau' \in FailedWrite(ptau)
    /\ UNCHANGED <<circuit, present, tmp, successCount>>
    /\ UNCHANGED cvars

\* exec(snarkjs powersoftau contribute ptauPath ptauPath.tmp), then
\* renameSync(ptauPath.tmp, ptauPath)
PtauContribute ==
    /\ cpc = "contribute"
    /\ \E ok \in BOOLEAN :
         /\ Step("contribute", ok, "prepare")
         /\ IF ok THEN ptau' = "contributed" /\ tmp' = "absent"
                  ELSE ptau' = ptau /\ tmp' \in FailedWrite(tmp)
    /\ UNCHANGED <<circuit, present, successCount>>
    /\ UNCHANGED cvars

\* exec(snarkjs powersoftau prepare phase2 ptauPath ptauPath.tmp), then
\* renameSync(ptauPath.tmp, ptauPath)
PtauPrepare ==
    /\ cpc = "prepare"
    /\ \E ok \in BOOLEAN :
         /\ Step("prepare", ok, "setup")
         /\ IF ok THEN ptau' = "prepared" /\ tmp' = "absent"
                  ELSE ptau' = ptau /\ tmp' \in FailedWrite(tmp)
    /\ UNCHANGED <<circuit, present, successCount>>
    /\ UNCHANGED cvars

\* [4/5] exec(snarkjs groth16 setup r1cs ptauPath zkey)
SetupStep ==
    /\ cpc = "setup"
    /\ \E ok \in BOOLEAN : Step("setup", ok, "export")
    /\ UNCHANGED <<circuit, present, ptau, tmp, successCount>>
    /\ UNCHANGED cvars

\* [5/5] exec(snarkjs zkey export verificationkey ...), then return true
ExportStep ==
    /\ cpc = "export"
    /\ \E ok \in BOOLEAN :
         /\ ran' = Append(ran, [step |-> "export", ok |-> ok])
         /\ cpc' = "returned"
         /\ ret' = IF ~ok /\ Mandatory("export") THEN "false" ELSE "true"
    /\ UNCHANGED <<circuit, present, ptau, tmp, successCount>>
    /\ UNCHANGED cvars

\* main(): count the result, go on to the next circuit or exit.
MainLoop ==
    /\ cpc = "returned"
    /\ successCount' = IF ret = "true" THEN successCount + 1 ELSE successCount
    /\ IF circuit < Len(present)
         THEN cpc' = "call" /\ circuit' = circuit + 1 /\ ran' = <<>> /\ ret' = "none"
         ELSE cpc' = "exit" /\ circuit' = circuit /\ ran' = ran /\ ret' = ret
    /\ UNCHANGED <<present, ptau, tmp>>
    /\ UNCHANGED cvars

NextCompile ==
    \/ CheckCircuitFile
    \/ CompileStep
    \/ InfoStep
    \/ PtauCheck
    \/ PtauNew
    \/ PtauContribute
    \/ PtauPrepare
    \/ SetupStep
    \/ ExportStep
    \/ MainLoop

SpecCompile == InitCompile /\ [][NextCompile]_vars

----------------------------------------------------------------------------
(* Properties of compileCircuit *)

IsPrefix(s, t) == Len(s) <= Len(t) /\ \A i \in 1..Len(s) : s[i] = t[i]

RanSteps == [i \in 1..Len(ran) |-> ran[i].step]

Returned == cpc \in {"returned", "exit"}

\* C10: compileCircuit runs its steps in the fixed order (file check, circom,
\* R1CS info, Powers of Tau new / contribute / prepare only when the ptau file
\* is absent, Groth16 setup, key export); a missing circuit file or a failed
\* step other than R1CS info is the last step run and makes it return false;
\* a failed R1CS info does not stop it; it returns true only after the export
\* and every mandatory step before it succeeded.
C10_StepOrder ==
    cpc # "off" =>
    /\ IsPrefix(RanSteps, StepsNew) \/ IsPrefix(RanSteps, StepsReuse)
    /\ \A i \in 1..Len(ran) :
         (~ran[i].ok /\ ran[i].step # "info")
         => i = Len(ran) /\ Returned /\ ret = "false"
    /\ (Returned /\ ret = "false")
         => ~ran[Len(ran)].ok /\ ran[Len(ran)].step # "info"
    /\ (Returned /\ ret = "true")
         => /\ RanSteps \in {StepsNew, StepsReuse}
            /\ \A i \in 1..Len(ran) : ran[i].ok \/ ran[i].step = "info"
    /\ Returned => ret \in {"true", "false"}
    /\ (Len(ran) >= 4 /\ ran[4].step = "ptauFound") => ptau # "absent"

\* A run that went on after a failed R1CS info and returned true.
C10_Witness ==
    /\ cpc = "returned" /\ ret = "true" /\ RanSteps = StepsNew
    /\ ~ran[3].ok /\ ptau = "prepared"

\* C11: across any sequence of compileCircuit runs, whenever step 3 finds the
\* file at the final ptau path and reuses it for Groth16 setup, that file has
\* been contributed to and phase-2 prepared; and a run that fails part-way
\* through new / contribute / prepare leaves no file at the final ptau path
\* that went through only part of that sequence.
C11_PtauComplete ==
    cpc # "off" =>
    /\ (Len(ran) >= 4 /\ ran[4].step = "ptauFound") => ptau = "prepared"
    /\ (Returned /\ ret = "false") => ptau \notin {"new", "contributed"}

====
